---------------------------- MODULE Spec2Model ----------------------------
(***************************************************************************)
(* Model of api/main.py: the single-file AAS document store (load_aas,      *)
(* save_aas, put_submodel), the unit normalisation and the DPP projection.  *)
(*                                                                          *)
(* Python strings are TLA+ strings.  A JSON value is a tagged record:       *)
(*   [t |-> "null"], [t |-> "str", s |-> ...], [t |-> "num", n |-> ...],     *)
(*   [t |-> "list", e |-> <<...>>], [t |-> "obj", f |-> [key |-> value]].    *)
(* The backing file is [k |-> "missing"], [k |-> "empty"] (zero length,     *)
(* as left by open(..., "w")), [k |-> "garbled"] (text that is not JSON)    *)
(* or [k |-> "json", v |-> value].                                           *)
(***************************************************************************)
EXTENDS Integers, Sequences, FiniteSets, TLC

VARIABLES
    file,          \* the backing file AAS_FILE
    PUBLIC_BASE,   \* the configured public base URL
    last,          \* the last completed sequential call: request, outcome, file before
    proc           \* the in-flight concurrent requests: position, request, locals

vars == <<file, PUBLIC_BASE, last, proc>>

----------------------------------------------------------------------------
(* JSON values *)

Null == [t |-> "null"]
Str(s) == [t |-> "str", s |-> s]
Num(n) == [t |-> "num", n |-> n]
List(e) == [t |-> "list", e |-> e]
Obj(f) == [t |-> "obj", f |-> f]

NoFields == [x \in {} |-> Null]

(* dict.get(key) of a Python dict of JSON values: None when the key is absent *)
DictGet(d, key) == IF key \in DOMAIN d THEN d[key] ELSE Null

(* d[key] = value on a Python dict *)
DictSet(d, key, value) == [x \in (DOMAIN d) \cup {key} |-> IF x = key THEN value ELSE d[x]]

----------------------------------------------------------------------------
(* Configuration *)

API_KEY_BACKEND == "dev-key-change"

----------------------------------------------------------------------------
(* Pydantic models *)

IsNonEmptyStr(v) == v.t = "str" /\ Len(v.s) >= 1
IsOptionalStr(v) == v.t \in {"str", "null"}

NameplateFields == {"manufacturer", "model", "serialNumber"}

(* Nameplate validation without the min_length constraint *)
NameplateValid_AllowEmpty(payload) ==
    \A k \in NameplateFields : k \in DOMAIN payload /\ payload[k].t = "str"

(* Nameplate validation of a payload: every field required, a str, min_length 1 *)
NameplateValid(payload) ==
    \A k \in NameplateFields : k \in DOMAIN payload /\ IsNonEmptyStr(payload[k])

(* model_dump() of the validated Nameplate: extra keys are ignored *)
NameplateDump(payload) == [k \in NameplateFields |-> payload[k]]

(* TechnicalData validation of a payload: both fields Optional[str], default None *)
TechnicalDataValid(payload) ==
    /\ IsOptionalStr(DictGet(payload, "power"))
    /\ IsOptionalStr(DictGet(payload, "weight"))

TechnicalData(payload) ==
    [power |-> DictGet(payload, "power"), weight |-> DictGet(payload, "weight")]

(* AASModel instance: [id |-> str, submodels |-> [name |-> [key |-> value]]] *)
AASModelDump(a) ==
    Obj([id |-> Str(a.id),
         submodels |-> Obj([n \in DOMAIN a.submodels |-> Obj(a.submodels[n])])])

(* AASModel validation of a JSON object: id a str (a number is not coerced),
   submodels a dict of dicts; other keys are ignored *)
AASModelValid(data) ==
    /\ "id" \in DOMAIN data.f
    /\ data.f["id"].t = "str"
    /\ "submodels" \in DOMAIN data.f
    /\ data.f["submodels"].t = "obj"
    /\ \A n \in DOMAIN data.f["submodels"].f : data.f["submodels"].f[n].t = "obj"

AASModel(data) ==
    [id |-> data.f["id"].s,
     submodels |-> [n \in DOMAIN data.f["submodels"].f |-> data.f["submodels"].f[n].f]]

default_aas ==
    [id |-> "1",
     submodels |-> [nameplate |-> [manufacturer |-> Str("Desconhecido"),
                                   model |-> Str("Desconhecido"),
                                   serialNumber |-> Str("SN-0000")],
                    technicalData |-> [power |-> Null, weight |-> Null]]]

----------------------------------------------------------------------------
(* Persistence *)

Missing == [k |-> "missing"]
Empty == [k |-> "empty"]
Json(v) == [k |-> "json", v |-> v]

(* the file once save_aas(a) has returned *)
save_aas(a) == Json(AASModelDump(a))

(* load_aas that returns the default record for an absent file without saving it *)
load_aas_NoSeed(f) ==
    IF f.k = "missing" THEN [err |-> "none", aas |-> default_aas, file |-> f]
    ELSE IF f.k # "json"
    THEN [err |-> "JSONDecodeError", aas |-> default_aas, file |-> f]
    ELSE IF f.v.t # "obj"
    THEN [err |-> "TypeError", aas |-> default_aas, file |-> f]
    ELSE IF ~AASModelValid(f.v)
    THEN [err |-> "none", aas |-> default_aas, file |-> save_aas(default_aas)]
    ELSE [err |-> "none", aas |-> AASModel(f.v), file |-> f]

(* load_aas() run to completion on file f:
   [err, aas (when err = "none"), file (the file when it returns or raises)] *)
load_aas(f) ==
    LET f1 == IF f.k = "missing" THEN save_aas(default_aas) ELSE f
    IN  IF f1.k # "json"
        THEN [err |-> "JSONDecodeError", aas |-> default_aas, file |-> f1]
        ELSE IF f1.v.t # "obj"
        THEN [err |-> "TypeError", aas |-> default_aas, file |-> f1]
        ELSE IF ~AASModelValid(f1.v)
        THEN [err |-> "none", aas |-> default_aas, file |-> save_aas(default_aas)]
        ELSE [err |-> "none", aas |-> AASModel(f1.v), file |-> f1]

----------------------------------------------------------------------------
(* Unit normalisation *)

RECURSIVE StrReplace(_, _, _)
(* str.replace(old, new): leftmost non-overlapping occurrences *)
StrReplace(s, old, new) ==
    IF Len(s) < Len(old) THEN s
    ELSE IF SubSeq(s, 1, Len(old)) = old
         THEN new \o StrReplace(SubSeq(s, Len(old) + 1, Len(s)), old, new)
         ELSE SubSeq(s, 1, 1) \o StrReplace(SubSeq(s, 2, Len(s)), old, new)

IsSpace(c) == c \in {" ", "\t", "\n"}

RECURSIVE LStrip(_)
LStrip(s) ==
    IF Len(s) > 0 /\ IsSpace(SubSeq(s, 1, 1)) THEN LStrip(SubSeq(s, 2, Len(s))) ELSE s

RECURSIVE RStrip(_)
RStrip(s) ==
    IF Len(s) > 0 /\ IsSpace(SubSeq(s, Len(s), Len(s)))
    THEN RStrip(SubSeq(s, 1, Len(s) - 1)) ELSE s

(* str.strip() *)
Strip(s) == RStrip(LStrip(s))

RECURSIVE CollapseSpaces(_)
(* re.sub(r"\s+", " ", s) *)
CollapseSpaces(s) ==
    IF Len(s) = 0 THEN s
    ELSE IF IsSpace(SubSeq(s, 1, 1))
         THEN " " \o CollapseSpaces(LStrip(s))
         ELSE SubSeq(s, 1, 1) \o CollapseSpaces(SubSeq(s, 2, Len(s)))

NormalizePower(p) ==
    Strip(CollapseSpaces(
        StrReplace(StrReplace(StrReplace(p, "Watt", "W"), "watts", "W"), "Watts", "W")))

NormalizeWeight(w) ==
    Strip(CollapseSpaces(StrReplace(StrReplace(w, "kgs", "kg"), "KG", "kg")))

(* Python truthiness of an Optional[str] *)
Truthy(v) == v.t = "str" /\ Len(v.s) > 0

normalize_units(tech) ==
    [power |-> IF Truthy(tech.power) THEN Str(NormalizePower(tech.power.s)) ELSE tech.power,
     weight |-> IF Truthy(tech.weight) THEN Str(NormalizeWeight(tech.weight.s)) ELSE tech.weight]

----------------------------------------------------------------------------
(* DPP projection *)

(* aas.submodels.get(name, {}) *)
SubmodelGet(submodels, name) == IF name \in DOMAIN submodels THEN submodels[name] ELSE NoFields

(* projection with the two links exchanged *)
build_dpp_from_aas_SwappedLinks(a, base) ==
    LET np == SubmodelGet(a.submodels, "nameplate")
        td == SubmodelGet(a.submodels, "technicalData")
    IN  Obj([productId |-> Str(a.id),
             nameplate |-> Obj([manufacturer |-> DictGet(np, "manufacturer"),
                                model |-> DictGet(np, "model"),
                                serialNumber |-> DictGet(np, "serialNumber")]),
             technicalData |-> Obj([power |-> DictGet(td, "power"),
                                    weight |-> DictGet(td, "weight")]),
             links |-> Obj([aas |-> Str(base \o "/dpp/" \o a.id),
                            self |-> Str(base \o "/aas/" \o a.id)]),
             meta |-> Obj([schema |-> Str("DPP-minimal-v0")])])

build_dpp_from_aas(a, base) ==
    LET np == SubmodelGet(a.submodels, "nameplate")
        td == SubmodelGet(a.submodels, "technicalData")
    IN  Obj([productId |-> Str(a.id),
             nameplate |-> Obj([manufacturer |-> DictGet(np, "manufacturer"),
                                model |-> DictGet(np, "model"),
                                serialNumber |-> DictGet(np, "serialNumber")]),
             technicalData |-> Obj([power |-> DictGet(td, "power"),
                                    weight |-> DictGet(td, "weight")]),
             links |-> Obj([aas |-> Str(base \o "/aas/" \o a.id),
                            self |-> Str(base \o "/dpp/" \o a.id)]),
             meta |-> Obj([schema |-> Str("DPP-minimal-v0")])])

----------------------------------------------------------------------------
(* Requests *)

Ids == {"1", "2"}
ApiKeys == {API_KEY_BACKEND, "wrong-key"}
Bases == {"http://localhost:8000", "http://x"}

NP(m, mo, sn) == [manufacturer |-> m, model |-> mo, serialNumber |-> sn]

NameplatePayloads ==
    { NP(Str("ACME"), Str("X"), Str("Y")),
      NP(Str("ACME"), Str("X"), Str("Y")) @@ [note |-> Str("extra")],
      NP(Str(" "), Str("M2"), Str("SN-1")),
      NP(Str(""), Str("X"), Str("Y")),
      NP(Str("ACME"), Str(""), Str("Y")),
      NP(Str("ACME"), Num(7), Str("Y")),
      [manufacturer |-> Str("ACME"), model |-> Str("X")] }

TD(p, w) == [power |-> p, weight |-> w]

TechnicalDataPayloads ==
    { TD(Str("500 Watts"), Str("12KG")),
      TD(Str("500 Watt"), Str("12 kgs")),
      TD(Str("  7 \t W  "), Str(" 3   kg ")),
      TD(Str(""), Str("")),
      [power |-> Str("5 watts"), note |-> Num(1)],
      TD(Num(500), Str("12KG")) }

CustomNames == {"customSubmodel"}

CustomPayloads ==
    { [foo |-> Str("bar")],
      [baz |-> Num(1), nested |-> Obj([manufacturer |-> Str("")])] }

Names == {"nameplate", "technicalData"} \cup CustomNames

Payloads(name) ==
    IF name = "nameplate" THEN NameplatePayloads
    ELSE IF name = "technicalData" THEN TechnicalDataPayloads
    ELSE CustomPayloads

----------------------------------------------------------------------------
(* Handlers *)

(* require_api_key(x_api_key) passes *)
require_api_key(x_api_key) == ~(API_KEY_BACKEND # "" /\ x_api_key # API_KEY_BACKEND)

(* put_submodel branch that stores a nameplate payload without validating it *)
SetSubmodel_Unvalidated(a, name, payload) ==
    IF name = "technicalData"
    THEN IF TechnicalDataValid(payload)
         THEN [err |-> "none",
               aas |-> [a EXCEPT !.submodels =
                            DictSet(@, name, normalize_units(TechnicalData(payload)))]]
         ELSE [err |-> "ValidationError", aas |-> a]
    ELSE [err |-> "none", aas |-> [a EXCEPT !.submodels = DictSet(@, name, payload)]]

(* put_submodel branch that merges a free submodel into the stored one
   (dict.update) instead of replacing it *)
SetSubmodel_Merge(a, name, payload) ==
    IF name = "nameplate"
    THEN IF NameplateValid(payload)
         THEN [err |-> "none",
               aas |-> [a EXCEPT !.submodels = DictSet(@, name, NameplateDump(payload))]]
         ELSE [err |-> "ValidationError", aas |-> a]
    ELSE IF name = "technicalData"
    THEN IF TechnicalDataValid(payload)
         THEN [err |-> "none",
               aas |-> [a EXCEPT !.submodels =
                            DictSet(@, name, normalize_units(TechnicalData(payload)))]]
         ELSE [err |-> "ValidationError", aas |-> a]
    ELSE [err |-> "none",
          aas |-> [a EXCEPT !.submodels =
                       DictSet(@, name, payload @@ SubmodelGet(a.submodels, name))]]

(* the per-submodel branch of put_submodel on the loaded record a:
   [err, aas (the record to save when err = "none")].  The payload is a dict
   by the handler's signature, so the isinstance test of line 132 passes. *)
SetSubmodel(a, name, payload) ==
    IF name = "nameplate"
    THEN IF NameplateValid(payload)
         THEN [err |-> "none",
               aas |-> [a EXCEPT !.submodels = DictSet(@, name, NameplateDump(payload))]]
         ELSE [err |-> "ValidationError", aas |-> a]
    ELSE IF name = "technicalData"
    THEN IF TechnicalDataValid(payload)
         THEN [err |-> "none",
               aas |-> [a EXCEPT !.submodels =
                            DictSet(@, name, normalize_units(TechnicalData(payload)))]]
         ELSE [err |-> "ValidationError", aas |-> a]
    ELSE [err |-> "none", aas |-> [a EXCEPT !.submodels = DictSet(@, name, payload)]]

(* the HTTP status of an outcome: an HTTPException carries its own, any other
   exception escaping a handler is answered 500 *)
Status(err) ==
    IF err = "none" THEN 200
    ELSE IF err = "Unauthorized" THEN 401
    ELSE IF err = "NotFound" THEN 404
    ELSE 500

NoRet == [k |-> "none"]

Call(op, key, id, name, payload, err, ret) ==
    [op |-> op, key |-> key, id |-> id, name |-> name, payload |-> payload,
     err |-> err, status |-> Status(err), ret |-> ret, before |-> file]

(* a direct call of load_aas() *)
Load ==
    LET r == load_aas(file)
    IN  /\ file' = r.file
        /\ last' = Call("load", "", "", "", NoFields, r.err,
                        IF r.err = "none" THEN [k |-> "aas", v |-> r.aas] ELSE NoRet)
        /\ UNCHANGED <<PUBLIC_BASE, proc>>

(* get_aas without the id comparison of lines 113-114 *)
get_aas_NoIdCheck(asset_id) ==
    LET r == load_aas(file)
    IN  /\ file' = r.file
        /\ last' = Call("get_aas", "", asset_id, "", NoFields, r.err,
                        IF r.err = "none" THEN [k |-> "json", v |-> AASModelDump(r.aas)]
                        ELSE NoRet)
        /\ UNCHANGED <<PUBLIC_BASE, proc>>

(* GET /aas/{asset_id} *)
get_aas(asset_id) ==
    LET r == load_aas(file)
        err == IF r.err # "none" THEN r.err
               ELSE IF r.aas.id # asset_id THEN "NotFound" ELSE "none"
    IN  /\ file' = r.file
        /\ last' = Call("get_aas", "", asset_id, "", NoFields, err,
                        IF err = "none" THEN [k |-> "json", v |-> AASModelDump(r.aas)]
                        ELSE NoRet)
        /\ UNCHANGED <<PUBLIC_BASE, proc>>

(* GET /dpp/{asset_id} *)
get_dpp(asset_id) ==
    LET r == load_aas(file)
        err == IF r.err # "none" THEN r.err
               ELSE IF r.aas.id # asset_id THEN "NotFound" ELSE "none"
    IN  /\ file' = r.file
        /\ last' = Call("get_dpp", "", asset_id, "", NoFields, err,
                        IF err = "none"
                        THEN [k |-> "json", v |-> build_dpp_from_aas(r.aas, PUBLIC_BASE)]
                        ELSE NoRet)
        /\ UNCHANGED <<PUBLIC_BASE, proc>>

(* PUT /aas/{asset_id}/submodel/{name} *)
put_submodel(x_api_key, asset_id, name, payload) ==
    LET r == load_aas(file)
        u == SetSubmodel(r.aas, name, payload)
        err == IF ~require_api_key(x_api_key) THEN "Unauthorized"
               ELSE IF r.err # "none" THEN r.err
               ELSE IF r.aas.id # asset_id THEN "NotFound"
               ELSE u.err
    IN  /\ file' = IF err = "Unauthorized" THEN file
                   ELSE IF err = "none" THEN save_aas(u.aas)
                   ELSE r.file
        /\ last' = Call("put_submodel", x_api_key, asset_id, name, payload, err,
                        IF err = "none"
                        THEN [k |-> "json", v |-> Obj([ok |-> [t |-> "bool", b |-> TRUE],
                                                      submodel |-> Str(name)])]
                        ELSE NoRet)
        /\ UNCHANGED <<PUBLIC_BASE, proc>>

----------------------------------------------------------------------------
(* Sequential specification: one request at a time, each handler run to
   completion.  The backing file starts in any state a deployment can find it
   in: absent, zero-length, a valid record, or valid JSON of another shape. *)

RecordTwo ==
    [id |-> "2", submodels |-> [nameplate |-> [manufacturer |-> Str("Old")]]]

InitFiles ==
    { Missing,
      Empty,
      save_aas(default_aas),
      save_aas(RecordTwo),
      Json(Obj([id |-> Str("1"), submodels |-> Obj(NoFields), rev |-> Num(3)])),
      Json(Obj([submodels |-> Obj([nameplate |-> Obj([manufacturer |-> Str("Old")])])])),
      Json(Obj([id |-> Str("1"), submodels |-> List(<<>>)])),
      Json(Obj([id |-> Num(1), submodels |-> Obj(NoFields)])),
      Json(List(<<Num(1)>>)),
      Json(Num(42)) }

NoCall == [op |-> "none", key |-> "", id |-> "", name |-> "", payload |-> NoFields,
           err |-> "none", status |-> 0, ret |-> NoRet, before |-> Missing]

Idle == [pc |-> "idle", req |-> [op |-> "none", key |-> "", id |-> "", name |-> "",
                              payload |-> NoFields],
         aas |-> [id |-> "", submodels |-> NoFields], err |-> "none"]

NumProcs == 2
Procs == 1..NumProcs

Init ==
    /\ file \in InitFiles
    /\ PUBLIC_BASE \in Bases
    /\ last = NoCall
    /\ proc = [p \in Procs |-> Idle]

GetAas == \E id \in Ids : get_aas(id)
GetDpp == \E id \in Ids : get_dpp(id)
PutSubmodel ==
    \E key \in ApiKeys, id \in Ids, name \in Names :
        \E payload \in Payloads(name) : put_submodel(key, id, name, payload)

Next == Load \/ GetAas \/ GetDpp \/ PutSubmodel

Spec == Init /\ [][Next]_vars

(* the same service on a fresh deployment: no backing file yet *)
InitFresh ==
    /\ file = Missing
    /\ PUBLIC_BASE \in Bases
    /\ last = NoCall
    /\ proc = [p \in Procs |-> Idle]

SpecFresh == InitFresh /\ [][Next]_vars

----------------------------------------------------------------------------
(* Concurrent specification: the handlers are plain def functions, which the
   framework runs on worker threads, so requests interleave at every access to
   the backing file.  Each request is one process; load_aas and save_aas are
   split at their file operations:
     exists   line 70   AAS_FILE.exists()
     open     line 83   open(AAS_FILE, "w") creates or truncates the file
     write    line 84   json.dump and the close that flushes it
     read     lines 72-73  open(AAS_FILE, "r") and json.load
   A process at "seed_*" is inside the save of line 71, at "heal_*" inside the
   save of line 79, at "save_*" inside the save of line 135. *)

Garbled == [k |-> "garbled"]

Request(op, key, id, name, payload) ==
    [op |-> op, key |-> key, id |-> id, name |-> name, payload |-> payload]

ConcRequests ==
    { Request("get_aas", "", "1", "", NoFields),
      Request("put_submodel", API_KEY_BACKEND, "1", "nameplate",
              NP(Str("ACME"), Str("X"), Str("Y"))),
      Request("put_submodel", API_KEY_BACKEND, "1", "nameplate",
              NP(Str(""), Str("X"), Str("Y"))),
      Request("put_submodel", API_KEY_BACKEND, "1", "technicalData",
              TD(Str("500 Watt"), Str("12KG"))),
      Request("put_submodel", API_KEY_BACKEND, "1", "customSubmodel", [foo |-> Str("bar")]),
      Request("put_submodel", API_KEY_BACKEND, "2", "customSubmodel", [foo |-> Str("bar")]),
      Request("put_submodel", "wrong-key", "1", "customSubmodel", [foo |-> Str("bar")]) }

RecordOne ==
    [id |-> "1",
     submodels |-> [nameplate |-> NP(Str("Old"), Str("M1"), Str("SN-1")),
                    technicalData |-> TD(Null, Null)]]

ConcInitFiles ==
    { Missing,
      save_aas(RecordOne),
      Json(Obj([submodels |-> Obj([nameplate |-> Obj([manufacturer |-> Str("Old")])])])) }

Done(p, err) == [proc EXCEPT ![p].pc = "done", ![p].err = err]

(* handler body that saves the record as loaded, its update lost *)
Handle_SaveLoaded(p, a) ==
    LET r == proc[p].req
        u == SetSubmodel(a, r.name, r.payload)
    IN  IF a.id # r.id THEN [Done(p, "NotFound") EXCEPT ![p].aas = a]
        ELSE IF r.op # "put_submodel" THEN [Done(p, "none") EXCEPT ![p].aas = a]
        ELSE IF u.err # "none" THEN [Done(p, u.err) EXCEPT ![p].aas = a]
        ELSE [proc EXCEPT ![p].pc = "save_open", ![p].aas = a]

(* the handler body after load_aas() has returned record a *)
Handle(p, a) ==
    LET r == proc[p].req
        u == SetSubmodel(a, r.name, r.payload)
    IN  IF a.id # r.id THEN [Done(p, "NotFound") EXCEPT ![p].aas = a]
        ELSE IF r.op # "put_submodel" THEN [Done(p, "none") EXCEPT ![p].aas = a]
        ELSE IF u.err # "none" THEN [Done(p, u.err) EXCEPT ![p].aas = a]
        ELSE [proc EXCEPT ![p].pc = "save_open", ![p].aas = u.aas]

(* a request arrives; the dependency require_api_key runs before the handler *)
Begin(p) ==
    /\ proc[p].pc = "idle"
    /\ \E r \in ConcRequests :
          proc' = IF r.op = "put_submodel" /\ ~require_api_key(r.key)
                  THEN [Done(p, "Unauthorized") EXCEPT ![p].req = r]
                  ELSE [proc EXCEPT ![p].pc = "exists", ![p].req = r]
    /\ UNCHANGED <<file, PUBLIC_BASE, last>>

(* line 70 *)
Exists(p) ==
    /\ proc[p].pc = "exists"
    /\ proc' = [proc EXCEPT ![p].pc = IF file.k = "missing" THEN "seed_open" ELSE "read",
                            ![p].aas = IF file.k = "missing" THEN default_aas ELSE @]
    /\ UNCHANGED <<file, PUBLIC_BASE, last>>

(* line 83: the file exists and is empty from here on *)
Open(p) ==
    /\ proc[p].pc \in {"seed_open", "heal_open", "save_open"}
    /\ file' = Empty
    /\ proc' = [proc EXCEPT ![p].pc = IF @ = "seed_open" THEN "seed_write"
                                      ELSE IF @ = "heal_open" THEN "heal_write"
                                      ELSE "save_write"]
    /\ UNCHANGED <<PUBLIC_BASE, last>>

(* the file after this process writes the dump of a at offset 0 of its own
   handle: whole when the file is still as its open left it; when another
   handle has written since, the longer of the two texts keeps its tail *)
Written(a) ==
    IF file.k = "empty" THEN {save_aas(a)} ELSE {save_aas(a), Garbled}

(* line 84 *)
Write(p) ==
    /\ proc[p].pc \in {"seed_write", "heal_write", "save_write"}
    /\ file' \in Written(proc[p].aas)
    /\ proc' = IF proc[p].pc = "seed_write" THEN [proc EXCEPT ![p].pc = "read"]
               ELSE IF proc[p].pc = "heal_write" THEN Handle(p, proc[p].aas)
               ELSE Done(p, "none")
    /\ UNCHANGED <<PUBLIC_BASE, last>>

(* lines 72-80, up to the save of line 79 *)
Read(p) ==
    /\ proc[p].pc = "read"
    /\ proc' = IF file.k # "json" THEN Done(p, "JSONDecodeError")
               ELSE IF file.v.t # "obj" THEN Done(p, "TypeError")
               ELSE IF ~AASModelValid(file.v)
               THEN [proc EXCEPT ![p].pc = "heal_open", ![p].aas = default_aas]
               ELSE Handle(p, AASModel(file.v))
    /\ UNCHANGED <<file, PUBLIC_BASE, last>>

InitConc ==
    /\ file \in ConcInitFiles
    /\ PUBLIC_BASE = "http://localhost:8000"
    /\ last = NoCall
    /\ proc = [p \in Procs |-> Idle]

NextConc == \E p \in Procs : Begin(p) \/ Exists(p) \/ Open(p) \/ Write(p) \/ Read(p)

SpecConc == InitConc /\ [][NextConc]_vars

----------------------------------------------------------------------------
(* Properties *)

(* the last call was a put_submodel that passed require_api_key *)
PutCall == last.op = "put_submodel" /\ last.key = API_KEY_BACKEND

(* what load_aas made of the file the last call started from *)
Loaded == load_aas(last.before)

(* the last call found a record, and the requested id is (is not) its id *)
IdMatches == Loaded.err = "none" /\ Loaded.aas.id = last.id
IdMismatches == Loaded.err = "none" /\ Loaded.aas.id # last.id

(* the file holds a JSON object of the record shape *)
HoldsRecord(f) == f.k = "json" /\ f.v.t = "obj" /\ AASModelValid(f.v)

(* the submodels mapping stored in a file that holds a record *)
StoredSubmodels(f) == f.v.f["submodels"].f

DefaultJson ==
    Obj([id |-> Str("1"),
         submodels |-> Obj([nameplate |-> Obj([manufacturer |-> Str("Desconhecido"),
                                               model |-> Str("Desconhecido"),
                                               serialNumber |-> Str("SN-0000")]),
                            technicalData |-> Obj([power |-> Null, weight |-> Null])])])

UnknownJson ==
    Obj([id |-> Str("1"),
         submodels |-> Obj([nameplate |-> Obj([manufacturer |-> Str("Unknown"),
                                               model |-> Str("Unknown"),
                                               serialNumber |-> Str("SN-0000")]),
                            technicalData |-> Obj([power |-> Null, weight |-> Null])])])

(* the file a failed or read-only call leaves behind: untouched when it held a
   record, the default record when load_aas seeded or healed it *)
AfterLoadOnly(f) == IF HoldsRecord(f) THEN f ELSE Json(DefaultJson)

(* ---- C1 ---- *)

(* the normalisation as the specification words it: every spelling of the unit
   replaced by its symbol, whitespace runs collapsed, the result trimmed *)
SpecPower(v) ==
    IF v.t = "str"
    THEN Str(Strip(CollapseSpaces(
             StrReplace(StrReplace(StrReplace(v.s, "Watts", "W"), "watts", "W"), "Watt", "W"))))
    ELSE v

SpecWeight(v) ==
    IF v.t = "str"
    THEN Str(Strip(CollapseSpaces(StrReplace(StrReplace(v.s, "kgs", "kg"), "KG", "kg"))))
    ELSE v

(* C1: every technicalData payload that put_submodel accepts is persisted
   unit-normalised: "Watt", "Watts" and "watts" become "W", "kgs" and "KG"
   become "kg", whitespace is collapsed and trimmed, null stays null; so
   {power: "500 Watts", weight: "12KG"} is persisted as {power: "500 W",
   weight: "12kg"}. *)
C1_PersistedIsNormalized ==
    (PutCall /\ last.name = "technicalData" /\ last.err = "none")
    => /\ HoldsRecord(file)
       /\ "technicalData" \in DOMAIN StoredSubmodels(file)
       /\ StoredSubmodels(file)["technicalData"] =
            Obj([power |-> SpecPower(DictGet(last.payload, "power")),
                 weight |-> SpecWeight(DictGet(last.payload, "weight"))])

(* ---- C2 ---- *)

(* C2 as stated: load_aas on an absent file returns the default record whose
   manufacturer and model are "Unknown", and the file then holds that record. *)
C2_SeedsUnknownDefault ==
    (last.op = "load" /\ last.before = Missing)
    => /\ last.err = "none"
       /\ AASModelDump(last.ret.v) = UnknownJson
       /\ file = Json(UnknownJson)

(* C2 amended: load_aas on an absent file returns the default record (id "1",
   nameplate manufacturer and model "Desconhecido", serialNumber "SN-0000",
   technicalData power and weight null), and when it returns the file exists
   and holds that same record. *)
C2_SeedsDefault ==
    (last.op = "load" /\ last.before = Missing)
    => /\ last.err = "none"
       /\ AASModelDump(last.ret.v) = DefaultJson
       /\ file = Json(DefaultJson)

C2_Witness == last.op = "load" /\ last.before = Missing /\ last.err = "none"

(* ---- C3 ---- *)

(* C3: load_aas never raises on a file of valid JSON that is not of the record
   shape (an object without id, submodels of the wrong type, a list, a
   number): it returns the default record and the file then holds it. *)
C3_LoadRecoversFromAnyJson ==
    (last.op = "load" /\ last.before.k = "json" /\ ~HoldsRecord(last.before))
    => /\ last.err = "none"
       /\ AASModelDump(last.ret.v) = DefaultJson
       /\ file = Json(DefaultJson)

(* ---- C4 ---- *)

(* a nameplate payload with a required field missing, not a string, or empty *)
BadNameplate(payload) ==
    \E k \in {"manufacturer", "model", "serialNumber"} :
        \/ k \notin DOMAIN payload
        \/ payload[k].t # "str"
        \/ payload[k] = Str("")

RejectedNameplateCall ==
    PutCall /\ last.name = "nameplate" /\ IdMatches /\ BadNameplate(last.payload)

(* C4 as stated: a nameplate put with the matching id and a missing or empty
   required field fails with a validation error and leaves the backing file
   exactly as it was before the call, whatever state the file was in. *)
C4_RejectedPutLeavesFile ==
    RejectedNameplateCall => (last.err = "ValidationError" /\ file = last.before)

(* C4 amended: such a put fails with a validation error and writes nothing of
   its payload: a file that held a record is exactly as before the call, and a
   file that was absent or of another shape holds the default record that the
   load at the start of the call put there. *)
C4_RejectedPutWritesNothing ==
    RejectedNameplateCall
    => /\ last.err = "ValidationError"
       /\ last.status # 200
       /\ file = AfterLoadOnly(last.before)

C4_Witness ==
    /\ RejectedNameplateCall
    /\ last.err = "ValidationError"
    /\ HoldsRecord(last.before)
    /\ last.before # Json(DefaultJson)
    /\ file = last.before

(* ---- C5 ---- *)

(* C5: a read (GET /aas, GET /dpp) or a write (put_submodel) asking for an id
   other than the stored record's id is answered 404, and such a write changes
   no submodel: the file is as the load left it (untouched when it held a
   record). *)
C5_WrongIdIsNotFound ==
    ((last.op \in {"get_aas", "get_dpp"} \/ PutCall) /\ IdMismatches)
    => /\ last.err = "NotFound"
       /\ last.status = 404
       /\ file = AfterLoadOnly(last.before)

C5_Witness ==
    /\ PutCall /\ IdMismatches
    /\ last.status = 404
    /\ last.name = "customSubmodel"
    /\ HoldsRecord(last.before)
    /\ last.before.v.f["id"] = Str("2")

(* ---- C6 ---- *)

FreeName(name) == name \notin {"nameplate", "technicalData"}

(* C6: a successful put under a name other than nameplate and technicalData
   stores the payload verbatim as that submodel, replacing any previous value
   whole, and keeps the record id and every other submodel as loaded. *)
C6_FreeSubmodelReplaced ==
    (PutCall /\ FreeName(last.name) /\ last.err = "none")
    => /\ HoldsRecord(file)
       /\ file.v.f["id"] = Str(Loaded.aas.id)
       /\ DOMAIN StoredSubmodels(file) = (DOMAIN Loaded.aas.submodels) \cup {last.name}
       /\ StoredSubmodels(file)[last.name] = Obj(last.payload)
       /\ \A n \in DOMAIN Loaded.aas.submodels :
              n # last.name => StoredSubmodels(file)[n] = Obj(Loaded.aas.submodels[n])

(* a free submodel has been overwritten by a payload with other keys, next to
   a nameplate written earlier *)
C6_Witness ==
    /\ PutCall /\ FreeName(last.name) /\ last.err = "none"
    /\ HoldsRecord(last.before)
    /\ last.name \in DOMAIN StoredSubmodels(last.before)
    /\ StoredSubmodels(last.before)[last.name] # Obj(last.payload)
    /\ "nameplate" \in DOMAIN StoredSubmodels(file)
    /\ StoredSubmodels(file)["nameplate"].f["manufacturer"] = Str("ACME")

(* ---- C7 ---- *)

(* C7: the DPP answered by GET /dpp is determined by the persisted record and
   the public base alone: productId is the id, the nameplate and technicalData
   fields are the stored ones (null where absent), links.aas is base/aas/id,
   links.self is base/dpp/id, meta.schema is "DPP-minimal-v0"; and projecting
   leaves the persisted record as the load left it. *)
C7_DppIsProjection ==
    (last.op = "get_dpp" /\ last.err = "none")
    => LET subs == StoredSubmodels(file)
           np == IF "nameplate" \in DOMAIN subs THEN subs["nameplate"].f ELSE NoFields
           td == IF "technicalData" \in DOMAIN subs THEN subs["technicalData"].f ELSE NoFields
           dpp == last.ret.v.f
       IN  /\ HoldsRecord(file)
           /\ file = AfterLoadOnly(last.before)
           /\ DOMAIN dpp = {"productId", "nameplate", "technicalData", "links", "meta"}
           /\ dpp["productId"] = file.v.f["id"]
           /\ dpp["productId"] = Str(last.id)
           /\ \A k \in {"manufacturer", "model", "serialNumber"} :
                  dpp["nameplate"].f[k] = IF k \in DOMAIN np THEN np[k] ELSE Null
           /\ \A k \in {"power", "weight"} :
                  dpp["technicalData"].f[k] = IF k \in DOMAIN td THEN td[k] ELSE Null
           /\ dpp["links"] = Obj([aas |-> Str(PUBLIC_BASE \o "/aas/" \o last.id),
                                  self |-> Str(PUBLIC_BASE \o "/dpp/" \o last.id)])
           /\ (PUBLIC_BASE = "http://x" /\ last.id = "1"
                 => dpp["links"] = Obj([aas |-> Str("http://x/aas/1"),
                                        self |-> Str("http://x/dpp/1")]))
           /\ dpp["meta"] = Obj([schema |-> Str("DPP-minimal-v0")])

(* a DPP of a record whose technicalData has been written, under base http://x *)
C7_Witness ==
    /\ last.op = "get_dpp" /\ last.err = "none"
    /\ PUBLIC_BASE = "http://x"
    /\ last.ret.v.f["technicalData"].f["power"] = Str("5 W")
    /\ last.ret.v.f["nameplate"].f["manufacturer"] = Str("ACME")

(* ---- C10 ---- *)

(* C10: on a deployment that starts without a backing file, after any sequence
   of calls the file is absent or holds a record with id "1", a submodels
   mapping, and a nameplate whose manufacturer, model and serialNumber are
   non-empty strings. *)
C10_PersistedNameplateValid ==
    \/ file = Missing
    \/ /\ HoldsRecord(file)
       /\ file.v.f["id"] = Str("1")
       /\ "nameplate" \in DOMAIN StoredSubmodels(file)
       /\ \A k \in {"manufacturer", "model", "serialNumber"} :
              /\ k \in DOMAIN StoredSubmodels(file)["nameplate"].f
              /\ StoredSubmodels(file)["nameplate"].f[k].t = "str"
              /\ StoredSubmodels(file)["nameplate"].f[k] # Str("")

(* a nameplate put has just been rejected on a record whose nameplate an
   earlier put replaced *)
C10_Witness ==
    /\ PutCall /\ last.name = "nameplate" /\ last.err = "ValidationError"
    /\ HoldsRecord(file)
    /\ StoredSubmodels(file)["nameplate"].f["manufacturer"] = Str("ACME")
    /\ "customSubmodel" \in DOMAIN StoredSubmodels(file)

(* ---- C8 ---- *)

AllDone == \A p \in Procs : proc[p].pc = "done"

(* the requests that were put_submodel calls answered with success *)
Writers == {p \in Procs : /\ proc[p].pc = "done"
                          /\ proc[p].req.op = "put_submodel"
                          /\ proc[p].err = "none"}

(* the submodel a successful put of request r stores: the three nameplate
   fields, the normalised technicalData (ConcRequests has one such payload:
   "500 Watt", "12KG"), or the free payload as given *)
StoredFor(r) ==
    IF r.name = "nameplate"
    THEN Obj([k \in {"manufacturer", "model", "serialNumber"} |-> r.payload[k]])
    ELSE IF r.name = "technicalData"
    THEN Obj([power |-> Str("500 W"), weight |-> Str("12kg")])
    ELSE Obj(r.payload)

HasUpdate(f, r) ==
    r.name \in DOMAIN StoredSubmodels(f) /\ StoredSubmodels(f)[r.name] = StoredFor(r)

(* C8: put_submodel is an unlocked read-modify-write of the whole record.
   Once every request has returned, a readable file is the whole record of
   one writer alone: the default record of a seed or heal, or the record one
   successful put built from its own load plus its own update; updates are
   never merged, so a put that loaded before another put saved and wrote
   after it discards that other update although both were answered 200. *)
C8_LastWriteWins ==
    (AllDone /\ Writers # {} /\ HoldsRecord(file))
    => \/ file = Json(DefaultJson)
       \/ \E w \in Writers :
             /\ file = Json(AASModelDump(proc[w].aas))
             /\ HasUpdate(file, proc[w].req)

(* two puts for different submodels both answered 200, and the file holds the
   update of one and not of the other *)
C8_Witness ==
    /\ AllDone
    /\ HoldsRecord(file)
    /\ \E w \in Writers, q \in Writers :
          /\ w # q
          /\ proc[w].req.name # proc[q].req.name
          /\ HasUpdate(file, proc[w].req)
          /\ ~HasUpdate(file, proc[q].req)

(* ---- C9 ---- *)

(* C9: save is atomic with respect to load: a load running while another
   request is inside save never reads a truncated or partly written file, so
   no request fails to decode the file (every file of ConcInitFiles is
   absent or valid JSON, so only a save in progress can make one
   undecodable). *)
C9_LoadNeverSeesPartialFile ==
    \A p \in Procs : proc[p].err # "JSONDecodeError"

=============================================================================
